---- MODULE Spec2Model ----
(***************************************************************************)
(* NimbusTodo: the task collection manager (hooks/useTaskList.ts), the     *)
(* persisted store (hooks/useLocalStorage.ts) and the Home page that uses  *)
(* the store (pages/Home.tsx).                                             *)
(*                                                                         *)
(* JavaScript values are tagged records, so that undefined, null, a Date   *)
(* and the ISO string a Date serialises to are four different values.      *)
(***************************************************************************)
EXTENDS Integers, Sequences, FiniteSets, TLC

VARIABLES
  tasks,        \* useTaskList: the useState collection of the manager
  now,          \* the wall clock, in milliseconds (Date.now())
  storage,      \* window.localStorage.getItem(STORAGE_KEY)
  open,         \* the tabs in which the Home page is mounted
  storedValue,  \* useLocalStorage: the useState collection of each tab
  inbox,        \* storage events dispatched to a tab and not yet handled
  ret,          \* what the last call of a manager operation returned
  last,         \* history: the last handler that ran in a tab of the Home page
  saved,        \* history: <<the collection of the last successful setItem>>, or <<>>
  ui            \* the useState values of the mounted components

vars ==
  <<tasks, now, storage, open, storedValue, inbox, ret, last, saved, ui>>

----------------------------------------------------------------------------
(* Bounds of the model *)

MaxTasks == 2     \* largest manager collection explored
MaxClock == 1     \* the clock runs from 0 to MaxClock
MaxInbox == 1     \* undelivered storage events per tab
MaxViewTasks == 2 \* largest collection given to the queries and utilities
MsPerDay == 2     \* instants of one calendar day
MaxSortTasks == 2 \* largest collection given to the sorts and to groupTasks
MaxListTasks == 2 \* largest collection given to the task list
MaxUpdatesPerTurn == 2 \* calls of the setter between two renders

Tabs == {1, 2}

----------------------------------------------------------------------------
(* JavaScript values *)

Undefined == [kind |-> "undefined"]
Null == [kind |-> "null"]
DateOf(ms) == [kind |-> "date", ms |-> ms]
StrOf(s) == [kind |-> "string", s |-> s]
ArrOf(items) == [kind |-> "array", items |-> items]
\* a variant that keeps a coarser unit than the millisecond
DateOnlyString(ms) == [kind |-> "string", iso |-> (ms \div 2) * 2]
\* Date.prototype.toISOString: millisecond precision, UTC
IsoString(ms) == [kind |-> "string", iso |-> ms]

\* no component with state of its own is mounted
Unmounted == [page |-> "none"]

\* the outcome of a call that threw
Thrown == [kind |-> "throw"]

\* JavaScript truthiness of the values a date field can hold
Truthy(v) == v.kind \in {"date", "string", "array"}

Range(s) == {s[i] : i \in DOMAIN s}

----------------------------------------------------------------------------
(* types/task.ts *)

TaskStatus == {"pending", "completed", "archived"}
TaskPriority == {"low", "medium", "high", "urgent"}
TaskFields ==
  {"id", "title", "description", "dueDate", "priority", "status",
   "createdAt", "updatedAt", "completedAt", "tags", "listId"}
DateFields == {"dueDate", "createdAt", "updatedAt", "completedAt"}

\* `task-${Date.now()}-${Math.random().toString(36).substr(2, 9)}`
GeneratedId(ms, rnd) == [prefix |-> "task", ms |-> ms, rnd |-> rnd]
LiteralId(s) == [lit |-> s]

\* the outcomes of Math.random() the model distinguishes
RandomValues == {"a", "b"}

----------------------------------------------------------------------------
(* The clock.  Every `new Date()` / Date.now() is a separate reading: the   *)
(* clock may have advanced since the last operation, and may advance       *)
(* between two readings of one handler.  now is the last reading taken.    *)

RECURSIVE Readings(_, _)
\* the possible results of n successive clock readings, the first not
\* before lo
Readings(n, lo) ==
  IF n = 0 THEN {<<>>}
  ELSE UNION {{<<c>> \o s : s \in Readings(n - 1, c)} : c \in lo..MaxClock}

ClockAfter(rd) == IF rd = <<>> THEN now ELSE rd[Len(rd)]

----------------------------------------------------------------------------
(* pages/Home.tsx: generateSampleTasks, abridged to the tasks '2' and '4'.  *)
(* Instants are relative to the clock reading n taken at the call.         *)

SampleTask2(n) ==
  [id |-> LiteralId("2"), title |-> "Review pull requests",
   description |-> StrOf("Check and approve pending PRs from the team"),
   dueDate |-> DateOf(n), priority |-> "high", status |-> "pending",
   createdAt |-> DateOf(n - 3), updatedAt |-> DateOf(n - 3),
   completedAt |-> Undefined, tags |-> ArrOf(<<"code-review">>),
   listId |-> Undefined]

SampleTask4(n) ==
  [id |-> LiteralId("4"), title |-> "Schedule team standup",
   description |-> Undefined,
   dueDate |-> Undefined, priority |-> "low", status |-> "completed",
   createdAt |-> DateOf(n - 5), updatedAt |-> DateOf(n - 2),
   completedAt |-> DateOf(n - 2), tags |-> Undefined,
   listId |-> Undefined]

generateSampleTasks(n) == <<SampleTask2(n), SampleTask4(n)>>

----------------------------------------------------------------------------
(* hooks/useTaskList.ts: the task collection manager *)

\* the TaskInput values the model submits
TaskInputs ==
  { [title |-> "Buy milk", description |-> Undefined, dueDate |-> Undefined,
     priority |-> "low", status |-> Undefined, tags |-> Undefined,
     listId |-> Undefined],
    [title |-> "Complete project", description |-> Undefined,
     dueDate |-> DateOf(1), priority |-> "high",
     status |-> StrOf("completed"), tags |-> ArrOf(<<"work", "urgent">>),
     listId |-> Undefined] }

\* the Partial<Task> values the model passes to updateTask
TaskUpdates ==
  { [title |-> "Renamed"],
    [id |-> LiteralId("4")],
    [createdAt |-> DateOf(1)] }

MissingId == LiteralId("missing")
IdsOf(coll) == {coll[i].id : i \in DOMAIN coll}
Matches(coll, id) == Cardinality({i \in DOMAIN coll : coll[i].id = id})

\* addTask: the object literal of lines 15-26; rd are the readings of
\* Date.now() (id), new Date() (createdAt) and new Date() (updatedAt)
NewTask(input, rnd, rd) ==
  [id |-> GeneratedId(rd[1], rnd),
   title |-> input.title,
   description |-> input.description,
   dueDate |-> input.dueDate,
   priority |-> input.priority,
   status |-> IF input.status = Undefined THEN "pending" ELSE input.status.s,
   tags |-> input.tags,
   listId |-> input.listId,
   createdAt |-> DateOf(rd[2]),
   updatedAt |-> DateOf(rd[3]),
   completedAt |-> Undefined]

\* a variant that adds at the end: [...prev, newTask]
AppendTo(newTask, prev) == prev \o <<newTask>>
\* setTasks(prev => [newTask, ...prev])
Prepend(newTask, prev) == <<newTask>> \o prev

\* { ...task, ...updates, updatedAt: new Date() }
MergeUpdates(task, updates, c) ==
  [(updates @@ task) EXCEPT !.updatedAt = DateOf(c)]

RECURSIVE MapUpdate(_, _, _, _)
\* prev.map(task => task.id === id ? {...} : task); every matching task
\* reads the clock once
MapUpdate(prev, id, updates, rd) ==
  IF prev = <<>> THEN <<>>
  ELSE IF Head(prev).id = id
       THEN <<MergeUpdates(Head(prev), updates, Head(rd))>>
              \o MapUpdate(Tail(prev), id, updates, Tail(rd))
       ELSE <<Head(prev)>> \o MapUpdate(Tail(prev), id, updates, rd)

\* a variant that removes by index: prev.splice(findIndex, 1), which takes
\* the last task when findIndex is -1
FilterOutBySplice(prev, id) ==
  IF prev = <<>> THEN <<>>
  ELSE IF \E i \in DOMAIN prev : prev[i].id = id
       THEN SelectSeq(prev, LAMBDA t : t.id # id)
       ELSE SubSeq(prev, 1, Len(prev) - 1)
\* prev.filter(task => task.id !== id)
FilterOut(prev, id) == SelectSeq(prev, LAMBDA t : t.id # id)

\* the clock readings one matching task of updateTaskStatus takes
StatusReads(status) == IF status = "completed" THEN 2 ELSE 1

\* { ...task, status, completedAt: status === 'completed' ? new Date() : null,
\*   updatedAt: new Date() }
WithStatus(task, status, rd) ==
  IF status = "completed"
  THEN [task EXCEPT !.status = status, !.completedAt = DateOf(rd[1]),
                    !.updatedAt = DateOf(rd[2])]
  ELSE [task EXCEPT !.status = status, !.completedAt = Null,
                    !.updatedAt = DateOf(rd[1])]

RECURSIVE MapStatus(_, _, _, _)
MapStatus(prev, id, status, rd) ==
  IF prev = <<>> THEN <<>>
  ELSE IF Head(prev).id = id
       THEN <<WithStatus(Head(prev), status, rd)>>
              \o MapStatus(Tail(prev), id, status,
                           SubSeq(rd, StatusReads(status) + 1, Len(rd)))
       ELSE <<Head(prev)>> \o MapStatus(Tail(prev), id, status, rd)

\* a variant that also clears completedAt, as a status change to archived does
ArchivedAndCleared(task) ==
  IF task.status = "completed"
  THEN [task EXCEPT !.status = "archived", !.completedAt = Null]
  ELSE task
\* task.status === 'completed' ? { ...task, status: 'archived' } : task
Archived(task) ==
  IF task.status = "completed" THEN [task EXCEPT !.status = "archived"]
  ELSE task

MapArchive(prev) == [i \in DOMAIN prev |-> Archived(prev[i])]

\* the manager touches neither the store nor the tabs
StoreIdle == UNCHANGED <<storage, open, storedValue, inbox, saved>>

\* history: the manager operation that was called, and whether a task of
\* the collection had the id it was given
Called(op, found) == [op |-> op, found |-> found]

addTask(input, rnd, rd) ==
  /\ Len(tasks) < MaxTasks
  /\ tasks' = Prepend(NewTask(input, rnd, rd), tasks)
  /\ now' = ClockAfter(rd)
  /\ ret' = NewTask(input, rnd, rd)
  /\ last' = Called("addTask", FALSE)
  /\ StoreIdle

updateTask(id, updates, rd) ==
  /\ tasks' = MapUpdate(tasks, id, updates, rd)
  /\ now' = ClockAfter(rd)
  /\ ret' = Undefined
  /\ last' = Called("updateTask", id \in IdsOf(tasks))
  /\ StoreIdle

deleteTask(id) ==
  /\ tasks' = FilterOut(tasks, id)
  /\ ret' = Undefined
  /\ last' = Called("deleteTask", id \in IdsOf(tasks))
  /\ UNCHANGED now
  /\ StoreIdle

updateTaskStatus(id, status, rd) ==
  /\ tasks' = MapStatus(tasks, id, status, rd)
  /\ now' = ClockAfter(rd)
  /\ ret' = Undefined
  /\ last' = Called("updateTaskStatus", id \in IdsOf(tasks))
  /\ StoreIdle

clearCompleted ==
  /\ tasks' = MapArchive(tasks)
  /\ ret' = Undefined
  /\ last' = Called("clearCompleted", FALSE)
  /\ UNCHANGED now
  /\ StoreIdle

ManagerIds == IdsOf(tasks) \cup {MissingId}

ManagerInit ==
  /\ tasks = <<>>
  /\ now = 0
  /\ storage = Null
  /\ open = {}
  /\ storedValue = [t \in Tabs |-> <<>>]
  /\ inbox = [t \in Tabs |-> <<>>]
  /\ ret = Undefined
  /\ last = [op |-> "none"]
  /\ saved = <<>>
  /\ ui = Unmounted

ManagerNext ==
  \/ \E input \in TaskInputs, rnd \in RandomValues, rd \in Readings(3, now) :
       addTask(input, rnd, rd) /\ UNCHANGED ui
  \/ \E id \in ManagerIds, updates \in TaskUpdates :
       \E rd \in Readings(Matches(tasks, id), now) :
         updateTask(id, updates, rd) /\ UNCHANGED ui
  \/ \E id \in ManagerIds : deleteTask(id) /\ UNCHANGED ui
  \/ \E id \in ManagerIds, status \in TaskStatus :
       \E rd \in Readings(Matches(tasks, id) * StatusReads(status), now) :
         updateTaskStatus(id, status, rd) /\ UNCHANGED ui
  \/ clearCompleted /\ UNCHANGED ui

ManagerSpec == ManagerInit /\ [][ManagerNext]_vars

----------------------------------------------------------------------------
(* hooks/useLocalStorage.ts: serialisation *)

\* a property JSON.stringify leaves out (its value was undefined)
Absent == [kind |-> "absent"]
\* new Date(undefined)
InvalidDate == [kind |-> "invalid-date"]

\* the fields of a task whose values are tagged (optional or Date-typed)
TaggedFields ==
  {"description", "dueDate", "createdAt", "updatedAt", "completedAt", "tags",
   "listId"}

\* JSON.stringify of one property value: undefined is dropped, a Date becomes
\* its ISO string (Date.prototype.toJSON), an invalid Date becomes null
StringifyValue(v) ==
  CASE v.kind = "undefined" -> Absent
    [] v.kind = "date" -> IsoString(v.ms)
    [] v.kind = "invalid-date" -> Null
    [] OTHER -> v

StringifyTask(task) ==
  [f \in TaskFields |->
     IF f \in TaggedFields THEN StringifyValue(task[f]) ELSE task[f]]

\* what localStorage holds under the key: getItem gives null (Null) or a string
EmptyText == [kind |-> "string", empty |-> TRUE]
StoredText(doc) == [kind |-> "string", empty |-> FALSE, doc |-> doc]
\* documents JSON.parse rejects, and JSON documents that are no array
Unparseable == [kind |-> "unparseable"]
JsonObject == [kind |-> "object"]

\* JSON.stringify(valueToStore)
JSONstringify(coll) ==
  StoredText(ArrOf([i \in DOMAIN coll |-> StringifyTask(coll[i])]))

\* reading a property of a parsed object
Get(obj, f) == IF obj[f] = Absent THEN Undefined ELSE obj[f]

\* new Date(v) for the values a parsed property can hold
NewDate(v) ==
  CASE v.kind = "string" -> DateOf(v.iso)
    [] v.kind = "null" -> DateOf(0)
    [] OTHER -> InvalidDate

\* the object literal of lines 19-25 and 63-69
ReconstructTask(obj) ==
  [f \in TaskFields |->
     CASE f = "dueDate" ->
            IF Truthy(Get(obj, f)) THEN NewDate(Get(obj, f)) ELSE Null
       [] f = "completedAt" ->
            IF Truthy(Get(obj, f)) THEN NewDate(Get(obj, f)) ELSE Null
       [] f \in {"createdAt", "updatedAt"} -> NewDate(Get(obj, f))
       [] f \in TaggedFields -> Get(obj, f)
       [] OTHER -> obj[f]]

\* JSON.parse(text) throws a SyntaxError
ParseThrows(text) == text.empty \/ text.doc.kind = "unparseable"

\* parsed.map(...) throws a TypeError: parsed is no array, or an element is
\* null (task.dueDate of null)
MapThrows(doc) ==
  \/ doc.kind # "array"
  \/ \E i \in DOMAIN doc.items : doc.items[i] = Null

DeserializeThrows(text) == ParseThrows(text) \/ MapThrows(text.doc)

\* JSON.parse followed by the date reconstruction, when neither throws
Deserialize(text) ==
  [i \in DOMAIN text.doc.items |-> ReconstructTask(text.doc.items[i])]

\* `if (item)`: null and the empty string are falsy
ItemPresent(item) == item # Null /\ ~item.empty

\* a variant whose catch returns [] where the loader returns initialValue
LoadInitialOrEmpty(item, readOk, initialValue) ==
  IF ~readOk THEN initialValue
  ELSE IF ~ItemPresent(item) THEN initialValue
  ELSE IF DeserializeThrows(item) THEN <<>>
  ELSE Deserialize(item)
\* the initial state loader, lines 9-32; readOk is FALSE when getItem throws
LoadInitial(item, readOk, initialValue) ==
  IF ~readOk THEN initialValue
  ELSE IF ~ItemPresent(item) THEN initialValue
  ELSE IF DeserializeThrows(item) THEN initialValue
  ELSE Deserialize(item)

\* a variant that calls setStoredValue only after setItem has returned
StateAfterSetItem(cur, valueToStore, ok) == IF ok THEN valueToStore ELSE cur
\* setValue, lines 37-53: setStoredValue(valueToStore) comes before setItem,
\* and the catch swallows what setItem throws (ok is FALSE)
StateAfterSetValue(cur, valueToStore, ok) == valueToStore
\* a variant that sets the state and leaves the key as it is
ItemKept(item, valueToStore, ok) == item
\* window.localStorage.setItem(key, JSON.stringify(valueToStore))
ItemAfterSetValue(item, valueToStore, ok) ==
  IF ok THEN JSONstringify(valueToStore) ELSE item
OutcomeOfSetValue(ok) == Undefined

\* a variant that keeps the tasks of the tab the new value does not name
StateMergedWithStorageEvent(cur, newValue) ==
  IF ~ItemPresent(newValue) THEN cur
  ELSE IF DeserializeThrows(newValue) THEN cur
  ELSE Deserialize(newValue)
         \o SelectSeq(cur, LAMBDA task :
                            task.id \notin IdsOf(Deserialize(newValue)))
\* handleStorageChange, lines 59-74
StateAfterStorageEvent(cur, newValue) ==
  IF ~ItemPresent(newValue) THEN cur
  ELSE IF DeserializeThrows(newValue) THEN cur
  ELSE Deserialize(newValue)

----------------------------------------------------------------------------
(* pages/Home.tsx: the handlers that write through the store *)

RECURSIVE MapHomeStatus(_, _, _, _)
\* handleStatusChange, lines 105-117: updatedAt is not touched
MapHomeStatus(prev, id, newStatus, rd) ==
  IF prev = <<>> THEN <<>>
  ELSE IF Head(prev).id = id
       THEN IF newStatus = "completed"
            THEN <<[Head(prev) EXCEPT !.status = newStatus,
                                      !.completedAt = DateOf(Head(rd))]>>
                   \o MapHomeStatus(Tail(prev), id, newStatus, Tail(rd))
            ELSE <<[Head(prev) EXCEPT !.status = newStatus,
                                      !.completedAt = Null]>>
                   \o MapHomeStatus(Tail(prev), id, newStatus, rd)
       ELSE <<Head(prev)>> \o MapHomeStatus(Tail(prev), id, newStatus, rd)

HomeStatusReads(newStatus) == IF newStatus = "completed" THEN 1 ELSE 0

\* the browser dispatches a storage event to every other open tab when the
\* value under the key changed
Dispatch(t, old, new) ==
  [u \in Tabs |->
     IF u \in open \ {t} /\ new # old THEN Append(inbox[u], new)
     ELSE inbox[u]]

CanDispatch(t, old, new) ==
  new # old => \A u \in open \ {t} : Len(inbox[u]) < MaxInbox

SetterCalls == {"handleStatusChange", "handleDelete"}

\* one call of the store's setter in tab t, made by handler op
setValue(op, t, valueToStore, ok) ==
  /\ CanDispatch(t, storage, ItemAfterSetValue(storage, valueToStore, ok))
  /\ storedValue' =
       [storedValue EXCEPT
          ![t] = StateAfterSetValue(storedValue[t], valueToStore, ok)]
  /\ storage' = ItemAfterSetValue(storage, valueToStore, ok)
  /\ inbox' = Dispatch(t, storage, ItemAfterSetValue(storage, valueToStore, ok))
  /\ saved' = IF ok THEN <<valueToStore>> ELSE saved
  /\ last' = [op |-> op, tab |-> t, ok |-> ok, value |-> valueToStore,
              outcome |-> OutcomeOfSetValue(ok)]

handleStatusChange(t, id, newStatus, rd, ok) ==
  /\ setValue("handleStatusChange", t,
              MapHomeStatus(storedValue[t], id, newStatus, rd), ok)
  /\ now' = ClockAfter(rd)
  /\ UNCHANGED <<tasks, ret, open, ui>>

handleDelete(t, id, ok) ==
  /\ setValue("handleDelete", t, FilterOut(storedValue[t], id), ok)
  /\ UNCHANGED <<now, tasks, ret, open, ui>>

handleStorageChange(t) ==
  /\ inbox[t] # <<>>
  /\ storedValue' =
       [storedValue EXCEPT
          ![t] = StateAfterStorageEvent(storedValue[t], Head(inbox[t]))]
  /\ inbox' = [inbox EXCEPT ![t] = Tail(inbox[t])]
  /\ last' = [op |-> "handleStorageChange", tab |-> t,
              newValue |-> Head(inbox[t]),
              stale |-> storedValue[t] # storedValue'[t]]
  /\ UNCHANGED <<storage, now, tasks, ret, open, saved, ui>>

LoadedBy(t, readOk, initialValue) ==
  [op |-> "load", tab |-> t, readOk |-> readOk, initialValue |-> initialValue]

\* the page is (re)loaded in tab t: generateSampleTasks() reads the clock,
\* the initial state loader runs again, and the events queued for the old
\* document are gone
Reload(t, readOk, rd) ==
  /\ t \in open
  /\ storedValue' =
       [storedValue EXCEPT
          ![t] = LoadInitial(storage, readOk, generateSampleTasks(rd[1]))]
  /\ inbox' = [inbox EXCEPT ![t] = <<>>]
  /\ now' = ClockAfter(rd)
  /\ last' = LoadedBy(t, readOk, generateSampleTasks(rd[1]))
  /\ UNCHANGED <<storage, tasks, ret, open, saved, ui>>

\* what the key may hold when the first tab opens
InitialItems ==
  { Null, EmptyText, StoredText(Unparseable), StoredText(Null),
    StoredText(JsonObject), StoredText(ArrOf(<<Null>>)),
    JSONstringify(<<>>), JSONstringify(generateSampleTasks(0)) }

HomeIds(t) == IdsOf(storedValue[t]) \cup {MissingId}

\* the handlers of tab t that call the store's setter, on the ids given;
\* outcomes says whether setItem may throw (FALSE) or succeed (TRUE)
HomeWritesWhen(t, ids, outcomes) ==
  \/ \E newStatus \in TaskStatus, ok \in outcomes, id \in ids :
       \E rd \in Readings(Matches(storedValue[t], id)
                            * HomeStatusReads(newStatus), now) :
         handleStatusChange(t, id, newStatus, rd, ok)
  \/ \E ok \in outcomes, id \in ids : handleDelete(t, id, ok)

HomeWrites(t, ids) == HomeWritesWhen(t, ids, BOOLEAN)

(* One tab: the Home page over whatever the key held before *)

StoreInit ==
  /\ storage \in InitialItems
  /\ open = {1}
  /\ storedValue =
       [t \in Tabs |->
          IF t = 1 THEN LoadInitial(storage, TRUE, generateSampleTasks(0))
          ELSE <<>>]
  /\ inbox = [t \in Tabs |-> <<>>]
  /\ now = 0
  /\ tasks = <<>>
  /\ ret = Undefined
  /\ last = LoadedBy(1, TRUE, generateSampleTasks(0))
  /\ saved = <<>>
  /\ ui = Unmounted

StoreNext ==
  \/ \E t \in open : HomeWrites(t, HomeIds(t))
  \/ \E t \in open, readOk \in BOOLEAN, rd \in Readings(1, now) :
       Reload(t, readOk, rd)

StoreSpec == StoreInit /\ [][StoreNext]_vars

(* Two tabs over one stored task *)

TabsInit ==
  /\ storage = JSONstringify(<<SampleTask2(0)>>)
  /\ open = Tabs
  /\ storedValue = [t \in Tabs |-> LoadInitial(storage, TRUE, <<>>)]
  /\ inbox = [t \in Tabs |-> <<>>]
  /\ now = 0
  /\ tasks = <<>>
  /\ ret = Undefined
  /\ last = [op |-> "none"]
  /\ saved = << <<SampleTask2(0)>> >>
  /\ ui = Unmounted

TabsNext ==
  \/ \E t \in open : HomeWrites(t, IdsOf(storedValue[t]))
  \/ \E t \in open : handleStorageChange(t)

TabsSpec == TabsInit /\ [][TabsNext]_vars

(* Two tabs over one stored task and a store that accepts every write *)

SyncNext ==
  \/ \E t \in open : HomeWritesWhen(t, IdsOf(storedValue[t]), {TRUE})
  \/ \E t \in open : handleStorageChange(t)

SyncSpec == TabsInit /\ [][SyncNext]_vars

----------------------------------------------------------------------------
(* Calendar days.  An instant is a number of milliseconds; local midnight   *)
(* falls on the multiples of MsPerDay.  Day 0 is yesterday, day 1 today and  *)
(* day 2 tomorrow.                                                          *)

\* date.setHours(0, 0, 0, 0); date.getTime()
StartOfDay(ms) == ms - (ms % MsPerDay)
\* the triple getFullYear(), getMonth(), getDate()
DayOf(ms) == ms \div MsPerDay

Today == MsPerDay .. (2 * MsPerDay - 1)
LastInstant == 2 * MsPerDay

RECURSIVE ViewReadings(_, _)
\* n successive clock readings from lo on, up to the first instant of
\* tomorrow
ViewReadings(n, lo) ==
  IF n = 0 THEN {<<>>}
  ELSE UNION {{<<c>> \o s : s \in ViewReadings(n - 1, c)} : c \in lo..LastInstant}

----------------------------------------------------------------------------
(* utils/task.ts and the query helpers of hooks/useTaskList.ts *)

\* a variant that compares the instants, without setHours(0, 0, 0, 0)
isOverdueByInstant(task, c) ==
  IF ~Truthy(task.dueDate) \/ task.status = "completed"
       \/ task.status = "archived"
  THEN FALSE
  ELSE task.dueDate.ms < c

\* isTaskOverdue, with c the reading of `new Date()` at line 41
isTaskOverdue(task, c) ==
  IF ~Truthy(task.dueDate) \/ task.status = "completed"
       \/ task.status = "archived"
  THEN FALSE
  ELSE StartOfDay(task.dueDate.ms) < StartOfDay(c)

\* isTaskDueToday, with c the reading of `new Date()` at line 53
isTaskDueToday(task, c) ==
  IF ~Truthy(task.dueDate) THEN FALSE
  ELSE DayOf(task.dueDate.ms) = DayOf(c)

\* the filter of getOverdueTasks, with c the reading at line 100
OverdueFilter(t, c) ==
  /\ Truthy(t.dueDate)
  /\ t.dueDate.ms < c
  /\ t.status # "completed"
  /\ t.status # "archived"

\* the filter of getDueToday, with c the reading at line 114
DueTodayFilter(t, c) ==
  IF ~Truthy(t.dueDate) THEN FALSE
  ELSE StartOfDay(t.dueDate.ms) = StartOfDay(c) /\ t.status # "completed"

\* how often isTaskOverdue and isTaskDueToday read the clock for a task
OverdueReads(task) ==
  IF ~Truthy(task.dueDate) \/ task.status = "completed"
       \/ task.status = "archived"
  THEN 0 ELSE 1
DueTodayReads(task) == IF ~Truthy(task.dueDate) THEN 0 ELSE 1

RECURSIVE StatsReads(_)
StatsReads(coll) ==
  IF coll = <<>> THEN 0
  ELSE OverdueReads(Head(coll)) + DueTodayReads(Head(coll))
         + StatsReads(Tail(coll))

\* getTaskStats, lines 103-116: the counters before the pass
InitialStats(coll) ==
  [total |-> Len(coll), pending |-> 0, completed |-> 0, archived |-> 0,
   overdue |-> 0, dueToday |-> 0,
   byPriority |-> [p \in TaskPriority |-> 0]]

\* a variant that tallies the status of the tasks that are not archived
StatsStepUnarchived(stats, task, overdue, today) ==
  [stats EXCEPT ![task.status] = IF task.status = "archived" THEN @ ELSE @ + 1,
                !.byPriority[task.priority] = @ + 1,
                !.overdue = IF overdue THEN @ + 1 ELSE @,
                !.dueToday = IF today THEN @ + 1 ELSE @]

\* the body of the forEach, lines 119-133; overdue and today are what
\* isTaskOverdue(task) and isTaskDueToday(task) returned
StatsStep(stats, task, overdue, today) ==
  [stats EXCEPT ![task.status] = @ + 1,
                !.byPriority[task.priority] = @ + 1,
                !.overdue = IF overdue THEN @ + 1 ELSE @,
                !.dueToday = IF today THEN @ + 1 ELSE @]

RECURSIVE StatsPass(_, _, _)
\* tasks.forEach(...), each call of a utility taking its own clock reading
StatsPass(stats, coll, rd) ==
  IF coll = <<>> THEN stats
  ELSE LET task == Head(coll)
           o == OverdueReads(task)
           d == DueTodayReads(task)
           overdue == IF o = 0 THEN FALSE ELSE isTaskOverdue(task, rd[1])
           today == IF d = 0 THEN FALSE ELSE isTaskDueToday(task, rd[o + 1])
       IN StatsPass(StatsStep(stats, task, overdue, today), Tail(coll),
                    SubSeq(rd, o + d + 1, Len(rd)))

\* results of the queries and utilities, as the caller receives them
TasksOf(items) == [kind |-> "tasks", items |-> items]
BoolOf(b) == [kind |-> "boolean", value |-> b]
StatsOf(stats) == [kind |-> "stats", stats |-> stats]

\* the tasks given to the queries: due at the end of yesterday, at the
\* start or the end of today, at the start of tomorrow, or without due date
DueValues ==
  {Undefined, DateOf(MsPerDay - 1), DateOf(MsPerDay),
   DateOf(2 * MsPerDay - 1), DateOf(2 * MsPerDay)}

ViewTask(due, status) ==
  [id |-> LiteralId("1"), title |-> "Review pull requests",
   description |-> Undefined, dueDate |-> due, priority |-> "high",
   status |-> status, createdAt |-> DateOf(0), updatedAt |-> DateOf(0),
   completedAt |-> IF status = "completed" THEN DateOf(0) ELSE Undefined,
   tags |-> Undefined, listId |-> Undefined]

ViewTasks == {ViewTask(due, status) : due \in DueValues, status \in TaskStatus}

\* ids '1', '2', ... by position, as the sample tasks have them
SampleIds == <<"1", "2", "3", "4", "5", "6", "7">>
Numbered(coll) ==
  [i \in DOMAIN coll |-> [coll[i] EXCEPT !.id = LiteralId(SampleIds[i])]]

ViewCollections ==
  {Numbered(coll) : coll \in UNION {[1..n -> ViewTasks] : n \in 0..MaxViewTasks}}

ViewIdle ==
  UNCHANGED <<tasks, storage, open, storedValue, inbox, saved, ui>>

\* getOverdueTasks, lines 99-108
getOverdueTasks(c) ==
  /\ ret' = TasksOf(SelectSeq(tasks, LAMBDA t : OverdueFilter(t, c)))
  /\ now' = c
  /\ last' = [op |-> "getOverdueTasks"]
  /\ ViewIdle

\* getDueToday, lines 113-125
getDueToday(c) ==
  /\ ret' = TasksOf(SelectSeq(tasks, LAMBDA t : DueTodayFilter(t, c)))
  /\ now' = c
  /\ last' = [op |-> "getDueToday"]
  /\ ViewIdle

\* a call isTaskOverdue(tasks[i])
CallIsTaskOverdue(i, rd) ==
  /\ ret' = BoolOf(IF rd = <<>> THEN FALSE ELSE isTaskOverdue(tasks[i], rd[1]))
  /\ now' = IF rd = <<>> THEN now ELSE rd[1]
  /\ last' = [op |-> "isTaskOverdue", index |-> i]
  /\ ViewIdle

\* a call getTaskStats(tasks)
CallGetTaskStats(rd) ==
  /\ ret' = StatsOf(StatsPass(InitialStats(tasks), tasks, rd))
  /\ now' = IF rd = <<>> THEN now ELSE rd[Len(rd)]
  /\ last' = [op |-> "getTaskStats"]
  /\ ViewIdle

ViewInit ==
  /\ tasks \in ViewCollections
  /\ now \in Today
  /\ storage = Null
  /\ open = {}
  /\ storedValue = [t \in Tabs |-> <<>>]
  /\ inbox = [t \in Tabs |-> <<>>]
  /\ ret = Undefined
  /\ last = [op |-> "none"]
  /\ saved = <<>>
  /\ ui = Unmounted

ViewNext ==
  \/ \E c \in now..LastInstant : getOverdueTasks(c)
  \/ \E c \in now..LastInstant : getDueToday(c)
  \/ \E i \in DOMAIN tasks :
       \E rd \in ViewReadings(OverdueReads(tasks[i]), now) :
         CallIsTaskOverdue(i, rd)
  \/ \E rd \in ViewReadings(StatsReads(tasks), now) : CallGetTaskStats(rd)

ViewSpec == ViewInit /\ [][ViewNext]_vars

----------------------------------------------------------------------------
(* hooks/useLocalStorage.ts: functional updates within one turn.            *)
(*                                                                         *)
(* setValue is rebuilt by useCallback on every render with storedValue in  *)
(* its closure.  Until the component renders again, every call of the      *)
(* setter runs value(storedValue) on the collection of the last render.    *)

\* the updater functions the handlers of Home pass to setTasks
Updaters(coll) ==
  {[kind |-> "delete", id |-> id] : id \in IdsOf(coll)}
    \cup {[kind |-> "status", id |-> id, status |-> status] :
            id \in IdsOf(coll), status \in TaskStatus}

\* value(prev) for an updater: the bodies of handleDelete (line 120) and of
\* handleStatusChange (lines 106-116), every new Date() reading c
ApplyUpdater(u, prev, c) ==
  IF u.kind = "delete" THEN FilterOut(prev, u.id)
  ELSE MapHomeStatus(prev, u.id, u.status,
                     [i \in 1..Matches(prev, u.id) |-> c])

\* the state of one mounted component that uses the hook: the collection
\* its last render saw, and the updaters issued since that render
HookUser(closure, issued) ==
  [page |-> "hook", closure |-> closure, issued |-> issued]

\* setValue(u) called in tab 1 with a function: value(storedValue) is taken
\* on the collection in the closure
setValueWith(u) ==
  /\ Len(ui.issued) < MaxUpdatesPerTurn
  /\ setValue("setValue", 1, ApplyUpdater(u, ui.closure, now), TRUE)
  /\ ui' = [ui EXCEPT !.issued = Append(@, u)]
  /\ UNCHANGED <<now, tasks, ret, open>>

\* the component renders again: useState returns the collection that was
\* set last, and useCallback builds a setter over it
Render ==
  /\ ui.issued # <<>>
  /\ ui' = HookUser(storedValue[1], <<>>)
  /\ UNCHANGED <<tasks, now, storage, open, storedValue, inbox, ret, last,
                 saved>>

TurnInit ==
  /\ storage = Null
  /\ open = {1}
  /\ storedValue =
       [t \in Tabs |->
          IF t = 1 THEN LoadInitial(storage, TRUE, generateSampleTasks(0))
          ELSE <<>>]
  /\ inbox = [t \in Tabs |-> <<>>]
  /\ now = 0
  /\ tasks = <<>>
  /\ ret = Undefined
  /\ last = LoadedBy(1, TRUE, generateSampleTasks(0))
  /\ saved = <<>>
  /\ ui = HookUser(storedValue[1], <<>>)

TurnNext ==
  \/ \E u \in Updaters(generateSampleTasks(0)) : setValueWith(u)
  \/ Render

TurnSpec == TurnInit /\ [][TurnNext]_vars

----------------------------------------------------------------------------
(* utils/task.ts: sortByPriority, sortByDueDate and groupTasks.             *)
(*                                                                         *)
(* A comparator returns a JavaScript number: finite, an infinity or NaN.   *)
(* Array.prototype.sort reads NaN as +0 and, the comparator being          *)
(* consistent, returns the elements in stable order.                       *)

Finite(n) == [num |-> "finite", n |-> n]
Infinity == [num |-> "Infinity"]
NegInfinity == [num |-> "-Infinity"]
NaN == [num |-> "NaN"]

\* a - b on JavaScript numbers
Minus(a, b) ==
  IF a = Infinity /\ b = Infinity THEN NaN
  ELSE IF a = Infinity THEN Infinity
  ELSE IF b = Infinity THEN NegInfinity
  ELSE Finite(a.n - b.n)

\* how the sort reads what the comparator returned: NaN is +0
SortCompare(v) ==
  IF v = NaN THEN 0
  ELSE IF v = Infinity THEN 1
  ELSE IF v = NegInfinity THEN -1
  ELSE IF v.n > 0 THEN 1 ELSE IF v.n < 0 THEN -1 ELSE 0

getPriorityValue(priority) ==
  CASE priority = "low" -> 1
    [] priority = "medium" -> 2
    [] priority = "high" -> 3
    [] priority = "urgent" -> 4

\* a variant that reads an absent due date as the epoch
DueTimeOrZero(task) ==
  IF Truthy(task.dueDate) THEN Finite(task.dueDate.ms) ELSE Finite(0)
\* a.dueDate ? new Date(a.dueDate).getTime() : Infinity
DueTime(task) ==
  IF Truthy(task.dueDate) THEN Finite(task.dueDate.ms) ELSE Infinity

\* the comparators of sortByPriority, of sortByDueDate and of the list's
\* 'createdAt' order; 'none' is not a comparator and sorts nothing
Comparator(by, a, b) ==
  CASE by = "priority" ->
         Finite(getPriorityValue(b.priority) - getPriorityValue(a.priority))
    [] by = "dueDate" -> Minus(DueTime(a), DueTime(b))
    [] by = "createdAt" -> Finite(b.createdAt.ms - a.createdAt.ms)

\* the elements of sorted that stay before x
Before(by, sorted, x) ==
  SelectSeq(sorted, LAMBDA e : SortCompare(Comparator(by, e, x)) <= 0)

\* a variant that puts x before the elements it ties with
InsertBeforeTies(by, sorted, x) ==
  SelectSeq(sorted, LAMBDA e : SortCompare(Comparator(by, e, x)) < 0)
    \o <<x>>
    \o SelectSeq(sorted, LAMBDA e : SortCompare(Comparator(by, e, x)) >= 0)
\* x goes after every element that does not sort after it
Insert(by, sorted, x) ==
  Before(by, sorted, x) \o <<x>>
    \o SelectSeq(sorted, LAMBDA e : SortCompare(Comparator(by, e, x)) > 0)

RECURSIVE Sorted(_, _)
\* [...tasks].sort(comparator)
Sorted(by, coll) ==
  IF coll = <<>> THEN <<>>
  ELSE Insert(by, Sorted(by, SubSeq(coll, 1, Len(coll) - 1)), coll[Len(coll)])

\* String(task[groupBy])
KeyOf(task, groupBy) ==
  IF groupBy = "status" THEN task.status ELSE task.priority

\* a variant that puts the task at the head of its group
Unshift(grouped, key, task) ==
  IF key \in DOMAIN grouped
  THEN [grouped EXCEPT ![key] = <<task>> \o @]
  ELSE (key :> <<task>>) @@ grouped
\* if (!grouped[key]) grouped[key] = []; grouped[key].push(task)
Push(grouped, key, task) ==
  IF key \in DOMAIN grouped
  THEN [grouped EXCEPT ![key] = Append(@, task)]
  ELSE (key :> <<task>>) @@ grouped

RECURSIVE Grouped(_, _)
\* groupTasks: the object built by the forEach
Grouped(coll, groupBy) ==
  IF coll = <<>> THEN <<>>
  ELSE Push(Grouped(SubSeq(coll, 1, Len(coll) - 1), groupBy),
            KeyOf(coll[Len(coll)], groupBy), coll[Len(coll)])

GroupsOf(grouped) == [kind |-> "groups", groups |-> grouped]

\* the tasks given to the sorts: every priority, no due date (undefined or
\* null) or one of two instants, every status
SortTask(priority, due, status) ==
  [ViewTask(due, status) EXCEPT !.priority = priority]
SortTasks ==
  {SortTask(priority, due, status) :
     priority \in TaskPriority,
     due \in {Undefined, Null, DateOf(0), DateOf(1)},
     status \in TaskStatus}
SortCollections ==
  {Numbered(coll) : coll \in UNION {[1..n -> SortTasks] : n \in 0..MaxSortTasks}}

\* history: the function that was called and the array it was given
CalledOn(op, arg) == [op |-> op, input |-> tasks, arg |-> arg]

SortIdle ==
  UNCHANGED <<tasks, now, storage, open, storedValue, inbox, saved, ui>>

sortByPriority ==
  /\ ret' = TasksOf(Sorted("priority", tasks))
  /\ last' = CalledOn("sortByPriority", "")
  /\ SortIdle

sortByDueDate ==
  /\ ret' = TasksOf(Sorted("dueDate", tasks))
  /\ last' = CalledOn("sortByDueDate", "")
  /\ SortIdle

groupTasks(groupBy) ==
  /\ ret' = GroupsOf(Grouped(tasks, groupBy))
  /\ last' = CalledOn("groupTasks", groupBy)
  /\ SortIdle

SortInit ==
  /\ tasks \in SortCollections
  /\ now = 0
  /\ storage = Null
  /\ open = {}
  /\ storedValue = [t \in Tabs |-> <<>>]
  /\ inbox = [t \in Tabs |-> <<>>]
  /\ ret = Undefined
  /\ last = [op |-> "none"]
  /\ saved = <<>>
  /\ ui = Unmounted

SortNext ==
  \/ sortByPriority
  \/ sortByDueDate
  \/ \E groupBy \in {"status", "priority"} : groupTasks(groupBy)

SortSpec == SortInit /\ [][SortNext]_vars

----------------------------------------------------------------------------
(* components/TaskListDisplay.tsx: the list the Home page renders *)

FilterOptions == {"all", "pending", "completed", "archived"}
SortOptions == {"priority", "dueDate", "createdAt", "none"}
GroupOptions == {"status", "priority", "none"}

\* filteredTasks, lines 74-79
filteredTasks(coll, filterStatus) ==
  IF filterStatus = "all"
  THEN SelectSeq(coll, LAMBDA task : task.status # "archived")
  ELSE SelectSeq(coll, LAMBDA task : task.status = filterStatus)

\* sortedTasks, lines 83-96
sortedTasks(coll, sortBy) ==
  IF sortBy = "none" THEN coll ELSE Sorted(sortBy, coll)

\* groupedTasks, lines 98-112
groupedTasks(coll, groupBy) ==
  IF groupBy = "none" THEN ("ungrouped" :> coll) ELSE Grouped(coll, groupBy)

\* groupOrder, lines 116-124
groupOrder(groupBy) ==
  CASE groupBy = "status" -> <<"pending", "completed">>
    [] groupBy = "priority" -> <<"urgent", "high", "medium", "low">>
    [] OTHER -> <<"ungrouped">>

\* a rendered group: its key and the TaskItems under it
Section(key, items) == [key |-> key, items |-> items]

\* the return statement, lines 147-183: the groups of groupOrder that exist
\* and are not empty, in that order
Sections(grouped, order) ==
  [i \in DOMAIN SelectSeq(order, LAMBDA key : key \in DOMAIN grouped
                                             /\ grouped[key] # <<>>) |->
     Section(SelectSeq(order, LAMBDA key : key \in DOMAIN grouped
                                            /\ grouped[key] # <<>>)[i],
             grouped[SelectSeq(order, LAMBDA key : key \in DOMAIN grouped
                                            /\ grouped[key] # <<>>)[i]])]

\* what the component renders: the empty message (no section) when nothing
\* passes the filter, the sections otherwise
Rendered(coll, filterStatus, sortBy, groupBy) ==
  IF filteredTasks(coll, filterStatus) = <<>> THEN <<>>
  ELSE Sections(groupedTasks(sortedTasks(filteredTasks(coll, filterStatus),
                                         sortBy), groupBy),
                groupOrder(groupBy))

SectionsOf(sections) == [kind |-> "sections", sections |-> sections]

\* the tasks given to the list: every priority and status, no due date
ListTasks ==
  {SortTask(priority, Undefined, status) :
     priority \in TaskPriority, status \in TaskStatus}
ListCollections ==
  {Numbered(coll) : coll \in UNION {[1..n -> ListTasks] : n \in 0..MaxListTasks}}

\* one render of <TaskListDisplay tasks filterStatus sortBy groupBy />
TaskListDisplay(filterStatus, sortBy, groupBy) ==
  /\ ret' = SectionsOf(Rendered(tasks, filterStatus, sortBy, groupBy))
  /\ last' = [op |-> "TaskListDisplay", filterStatus |-> filterStatus,
              sortBy |-> sortBy, groupBy |-> groupBy]
  /\ SortIdle

ListInit ==
  /\ tasks \in ListCollections
  /\ now = 0
  /\ storage = Null
  /\ open = {}
  /\ storedValue = [t \in Tabs |-> <<>>]
  /\ inbox = [t \in Tabs |-> <<>>]
  /\ ret = Undefined
  /\ last = [op |-> "none"]
  /\ saved = <<>>
  /\ ui = Unmounted

ListNext ==
  \E filterStatus \in FilterOptions, sortBy \in SortOptions,
     groupBy \in GroupOptions :
    TaskListDisplay(filterStatus, sortBy, groupBy)

ListSpec == ListInit /\ [][ListNext]_vars

----------------------------------------------------------------------------
(* components/TaskForm.tsx and components/TaskDetailModal.tsx: the two      *)
(* editors.  The form hands its input to addTask of the manager; the modal  *)
(* is the one the Home page mounts, saving through the store of tab 1.      *)

\* what the user types into the title input
TypedTitles == {"", "  ", " Buy milk "}
\* what the user types into the tag input
TypedTags == {"", " ", "work", " work "}

\* String.prototype.trim on the strings the model types
Trim(s) ==
  CASE s \in {" ", "  "} -> ""
    [] s = " work " -> "work"
    [] s = " Buy milk " -> "Buy milk"
    [] OTHER -> s

\* a variant that rejects the empty string only
Empty(s) == s = ""
\* !title.trim()
Blank(s) == Trim(s) = ""

\* the errors state: {} and { title: 'Title is required' }
NoErrors == [title |-> Undefined]
TitleRequired == [title |-> StrOf("Title is required")]
\* validateForm: the newErrors object it builds
Validate(title) == IF Blank(title) THEN TitleRequired ELSE NoErrors

\* tags || []
ItemsOf(tags) == IF tags = Undefined THEN <<>> ELSE tags.items
Without(items, tag) == SelectSeq(items, LAMBDA t : t # tag)

(* TaskForm *)

\* the useState initial values, without an initialTask
FormState(title, newTag, tags, errors) ==
  [page |-> "form", title |-> title, newTag |-> newTag, tags |-> tags,
   errors |-> errors]
EmptyForm(errors) == FormState("", "", <<>>, errors)

\* the taskInput object of handleSubmit; description and dueDate are left
\* empty and priority at its default
FormInput(title, tags) ==
  [title |-> Trim(title), description |-> Undefined, dueDate |-> Null,
   priority |-> "medium", status |-> Undefined,
   tags |-> IF Len(tags) > 0 THEN ArrOf(tags) ELSE Undefined,
   listId |-> Undefined]

\* history: a handler that neither submits nor saves ran
Edited == [op |-> "edit"]

EditorIdle == UNCHANGED <<tasks, now, storage, open, storedValue, inbox, ret,
                          saved>>

setTitle(v) ==
  /\ ui.page = "form"
  /\ ui' = [ui EXCEPT !.title = v]
  /\ last' = Edited
  /\ EditorIdle

setNewTag(v) ==
  /\ ui.page = "form"
  /\ ui' = [ui EXCEPT !.newTag = v]
  /\ last' = Edited
  /\ EditorIdle

TaskForm_handleAddTag ==
  /\ ui.page = "form"
  /\ ui' = IF ~Blank(ui.newTag) /\ Trim(ui.newTag) \notin Range(ui.tags)
           THEN [ui EXCEPT !.tags = Append(ui.tags, Trim(ui.newTag)),
                           !.newTag = ""]
           ELSE ui
  /\ last' = Edited
  /\ EditorIdle

TaskForm_handleRemoveTag(tag) ==
  /\ ui.page = "form"
  /\ ui' = [ui EXCEPT !.tags = Without(ui.tags, tag)]
  /\ last' = Edited
  /\ EditorIdle

\* handleSubmit with onSubmit = addTask
TaskForm_handleSubmit(rnd, rd) ==
  /\ ui.page = "form"
  /\ IF Validate(ui.title) # NoErrors
     THEN /\ rd = <<>>
          /\ ui' = [ui EXCEPT !.errors = Validate(ui.title)]
          /\ last' = [op |-> "handleSubmit"]
          /\ EditorIdle
     ELSE /\ Len(rd) = 3
          /\ addTask(FormInput(ui.title, ui.tags), rnd, rd)
          /\ ui' = EmptyForm(Validate(ui.title))

(* TaskDetailModal, mounted by Home *)

\* the useEffect on [task, isOpen]
AfterEffect(u) ==
  IF u.selectedTask # Null
  THEN [u EXCEPT !.editedTask = u.selectedTask, !.isEditing = FALSE,
                 !.errors = NoErrors]
  ELSE u

HomePage ==
  [page |-> "home", selectedTask |-> Null, isModalOpen |-> FALSE,
   isEditing |-> FALSE, editedTask |-> Null, errors |-> NoErrors]

\* the inputs and the footer of the edit mode are rendered
Editing == ui.page = "home" /\ ui.isModalOpen /\ ui.isEditing

handleTaskClick(i) ==
  /\ ui.page = "home" /\ ~ui.isModalOpen
  /\ ui' = AfterEffect([ui EXCEPT !.selectedTask = storedValue[1][i],
                                  !.isModalOpen = TRUE])
  /\ last' = Edited
  /\ EditorIdle

\* a variant that hides the modal and keeps the selected task
ClosedKeepingSelection(u) == [u EXCEPT !.isModalOpen = FALSE]
\* setIsModalOpen(false); setSelectedTask(null)
Closed(u) == [u EXCEPT !.selectedTask = Null, !.isModalOpen = FALSE]

handleModalClose ==
  /\ ui.page = "home" /\ ui.isModalOpen
  /\ ui' = AfterEffect(Closed(ui))
  /\ last' = Edited
  /\ EditorIdle

\* the Edit and Cancel buttons of the footer
setIsEditing(b) ==
  /\ ui.page = "home" /\ ui.isModalOpen /\ ui.isEditing # b
  /\ ui' = [ui EXCEPT !.isEditing = b]
  /\ last' = Edited
  /\ EditorIdle

\* handleEditChange('title', v)
handleEditChange(v) ==
  /\ Editing
  /\ ui' = [ui EXCEPT !.editedTask.title = v,
                      !.errors = IF ui.errors = TitleRequired
                                 THEN [title |-> StrOf("")] ELSE ui.errors]
  /\ last' = Edited
  /\ EditorIdle

TaskDetailModal_handleAddTag(newTag) ==
  /\ Editing
  /\ ui' = IF ~Blank(newTag)
              /\ Trim(newTag) \notin Range(ItemsOf(ui.editedTask.tags))
           THEN [ui EXCEPT !.editedTask.tags =
                   ArrOf(Append(ItemsOf(ui.editedTask.tags), Trim(newTag)))]
           ELSE ui
  /\ last' = Edited
  /\ EditorIdle

TaskDetailModal_handleRemoveTag(tag) ==
  /\ Editing
  /\ ui' = [ui EXCEPT !.editedTask.tags =
              IF ui.editedTask.tags = Undefined THEN Undefined
              ELSE ArrOf(Without(ui.editedTask.tags.items, tag))]
  /\ last' = Edited
  /\ EditorIdle

\* the object handleSave passes to onSave; the descriptions of the model are
\* undefined or already trimmed and not empty, so description is kept
SavedTask(editedTask, c) ==
  [editedTask EXCEPT !.title = Trim(editedTask.title),
                     !.updatedAt = DateOf(c)]

\* handleModalSave: prevTasks.map(task => task.id === updatedTask.id ? ...)
MapReplace(prev, updatedTask) ==
  [i \in DOMAIN prev |->
     IF prev[i].id = updatedTask.id THEN updatedTask ELSE prev[i]]

\* handleSave with onSave = handleModalSave
TaskDetailModal_handleSave(rd, ok) ==
  /\ Editing
  /\ IF Validate(ui.editedTask.title) # NoErrors
     THEN /\ rd = <<>>
          /\ ui' = [ui EXCEPT !.errors = Validate(ui.editedTask.title)]
          /\ last' = [op |-> "handleSave"]
          /\ EditorIdle
     ELSE /\ Len(rd) = 1
          /\ setValue("handleModalSave", 1,
                      MapReplace(storedValue[1],
                                 SavedTask(ui.editedTask, rd[1])), ok)
          /\ ui' = AfterEffect(
                     [ui EXCEPT !.selectedTask =
                                  SavedTask(ui.editedTask, rd[1]),
                                !.errors = Validate(ui.editedTask.title)])
          /\ now' = ClockAfter(rd)
          /\ UNCHANGED <<tasks, ret, open>>

\* the clock readings of the modal's handleStatusChange: completedAt (when
\* completed) and updatedAt of the object it gives to setEditedTask
ModalStatusReads(newStatus) == IF newStatus = "completed" THEN 2 ELSE 1

\* handleStatusChange of the modal with onStatusChange =
\* handleModalStatusChange: the object given to setEditedTask is replaced by
\* the effect, which runs because Home sets a new selectedTask
TaskDetailModal_handleStatusChange(newStatus, rd, ok) ==
  /\ ui.page = "home" /\ ui.isModalOpen /\ ui.editedTask # Null
  /\ Len(rd) = ModalStatusReads(newStatus)
                 + Matches(storedValue[1], ui.selectedTask.id)
                     * HomeStatusReads(newStatus)
  /\ setValue("handleModalStatusChange", 1,
              MapHomeStatus(storedValue[1], ui.selectedTask.id, newStatus,
                            SubSeq(rd, ModalStatusReads(newStatus) + 1,
                                   Len(rd))), ok)
  /\ ui' = AfterEffect([ui EXCEPT !.selectedTask.status = newStatus])
  /\ now' = ClockAfter(rd)
  /\ UNCHANGED <<tasks, ret, open>>

\* handleDelete of the modal with onDelete = handleModalDelete and
\* onClose = handleModalClose; confirmed is what confirm() returned
TaskDetailModal_handleDelete(confirmed, ok) ==
  /\ ui.page = "home" /\ ui.isModalOpen /\ ~ui.isEditing
  /\ IF confirmed
     THEN /\ setValue("handleModalDelete", 1,
                      FilterOut(storedValue[1], ui.selectedTask.id), ok)
          /\ ui' = AfterEffect(Closed(Closed(ui)))
          /\ UNCHANGED <<now, tasks, ret, open>>
     ELSE /\ ok
          /\ last' = Edited
          /\ UNCHANGED ui
          /\ EditorIdle

(* The manager called directly, as in IMPLEMENTATION_NOTES.ts *)

\* TaskInput and Partial<Task> values that carry tags
TagInputs ==
  { [title |-> "Complete project", description |-> Undefined,
     dueDate |-> Undefined, priority |-> "high", status |-> Undefined,
     tags |-> ArrOf(<<"work", "work">>), listId |-> Undefined] }
TagUpdates == { [tags |-> ArrOf(<<"urgent", "urgent">>)] }

EditInit ==
  /\ ui \in {Unmounted, EmptyForm(NoErrors), HomePage}
  /\ tasks = <<>>
  /\ now = 0
  /\ open = IF ui = HomePage THEN {1} ELSE {}
  /\ storage = IF ui = HomePage THEN JSONstringify(<<SampleTask2(0)>>)
               ELSE Null
  /\ storedValue =
       [t \in Tabs |->
          IF t \in open THEN LoadInitial(storage, TRUE, generateSampleTasks(0))
          ELSE <<>>]
  /\ inbox = [t \in Tabs |-> <<>>]
  /\ ret = Undefined
  /\ last = [op |-> "none"]
  /\ saved = <<>>

EditNext ==
  \/ \E v \in TypedTitles : setTitle(v)
  \/ \E v \in TypedTags : setNewTag(v)
  \/ TaskForm_handleAddTag
  \/ /\ ui.page = "form"
     /\ \E tag \in Range(ui.tags) : TaskForm_handleRemoveTag(tag)
  \/ \E rnd \in RandomValues, rd \in Readings(3, now) \cup {<<>>} :
       TaskForm_handleSubmit(rnd, rd)
  \/ \E i \in DOMAIN storedValue[1] : handleTaskClick(i)
  \/ handleModalClose
  \/ \E b \in BOOLEAN : setIsEditing(b)
  \/ \E v \in TypedTitles : handleEditChange(v)
  \/ \E newTag \in TypedTags : TaskDetailModal_handleAddTag(newTag)
  \/ /\ Editing
     /\ \E tag \in Range(ItemsOf(ui.editedTask.tags)) :
          TaskDetailModal_handleRemoveTag(tag)
  \/ \E rd \in Readings(1, now) \cup {<<>>}, ok \in BOOLEAN :
       TaskDetailModal_handleSave(rd, ok)
  \/ /\ ui = Unmounted
     /\ \E input \in TagInputs, rnd \in RandomValues, rd \in Readings(3, now) :
          addTask(input, rnd, rd) /\ UNCHANGED ui
  \/ /\ ui = Unmounted
     /\ \E id \in ManagerIds, updates \in TagUpdates :
          \E rd \in Readings(Matches(tasks, id), now) :
            updateTask(id, updates, rd) /\ UNCHANGED ui

EditSpec == EditInit /\ [][EditNext]_vars

(* The Home page with its modal over the sample tasks and a store that     *)
(* accepts every write                                                     *)

\* what the user types into the title input of the modal
ModalTitles == {" Buy milk "}

ModalInit ==
  /\ ui = HomePage
  /\ tasks = <<>>
  /\ now = 0
  /\ open = {1}
  /\ storage = Null
  /\ storedValue =
       [t \in Tabs |->
          IF t = 1 THEN LoadInitial(storage, TRUE, generateSampleTasks(0))
          ELSE <<>>]
  /\ inbox = [t \in Tabs |-> <<>>]
  /\ ret = Undefined
  /\ last = LoadedBy(1, TRUE, generateSampleTasks(0))
  /\ saved = <<>>

ModalNext ==
  \/ \E i \in DOMAIN storedValue[1] : handleTaskClick(i)
  \/ handleModalClose
  \/ \E b \in BOOLEAN : setIsEditing(b)
  \/ \E v \in ModalTitles : handleEditChange(v)
  \/ \E rd \in Readings(1, now) \cup {<<>>} :
       TaskDetailModal_handleSave(rd, TRUE)
  \/ \E newStatus \in TaskStatus :
       \E rd \in Readings(1, now) \cup Readings(2, now) \cup Readings(3, now) :
         TaskDetailModal_handleStatusChange(newStatus, rd, TRUE)
  \/ \E confirmed \in BOOLEAN : TaskDetailModal_handleDelete(confirmed, TRUE)

ModalSpec == ModalInit /\ [][ModalNext]_vars

----------------------------------------------------------------------------
(* Properties of the task collection manager, checked under ManagerSpec *)

\* a date field that holds an instant (neither null nor undefined)
IsSet(v) == v.kind = "date"

IdSeq(coll) == [i \in DOMAIN coll |-> coll[i].id]

\* C1: in every reachable state of the manager every task has completedAt
\* non-null if and only if its status is completed.
C1_CompletedAtIffCompleted ==
  \A i \in DOMAIN tasks :
    IsSet(tasks[i].completedAt) <=> tasks[i].status = "completed"

\* C2: after every mutating operation of the manager the value stored under
\* the key is the serialisation of the manager's collection.
C2_ManagerWritesThrough ==
  [][storage' = JSONstringify(tasks')]_vars

\* C4: updateTaskStatus(id, status) gives every task of that id the status,
\* completedAt the instant of the mutation if the status is completed and
\* null otherwise, and updatedAt that same instant; every other field and
\* every other task is unchanged, and so is the order.
C4_SetStatusEffect ==
  [][\A id \in ManagerIds, status \in TaskStatus :
       (\E rd \in Readings(Matches(tasks, id) * StatusReads(status), now) :
          updateTaskStatus(id, status, rd))
       => /\ Len(tasks') = Len(tasks)
          /\ \A i \in DOMAIN tasks :
               IF tasks[i].id = id
               THEN /\ tasks'[i].status = status
                    /\ \E T \in now..now' :
                         /\ tasks'[i].updatedAt = DateOf(T)
                         /\ tasks'[i].completedAt =
                              IF status = "completed" THEN DateOf(T) ELSE Null
                    /\ \A f \in TaskFields \ {"status", "completedAt", "updatedAt"} :
                         tasks'[i][f] = tasks[i][f]
               ELSE tasks'[i] = tasks[i]]_vars

\* C8: the task addTask returns has status pending when the input names no
\* status, completedAt null, and createdAt equal to updatedAt.
C8_AddDefaults ==
  [][\A input \in TaskInputs :
       (\E rnd \in RandomValues, rd \in Readings(3, now) :
          addTask(input, rnd, rd))
       => /\ input.status = Undefined => ret'.status = "pending"
          /\ ~IsSet(ret'.completedAt)
          /\ ret'.createdAt = ret'.updatedAt]_vars

\* C9: addTask puts the new task in front of the unchanged previous tasks,
\* and returns the task at the head.
C9_AddPrepends ==
  [][ret' # Undefined
       => /\ Len(tasks') = Len(tasks) + 1
          /\ tasks'[1] = ret'
          /\ \A i \in DOMAIN tasks : tasks'[i + 1] = tasks[i]]_vars

\* C9 witness: a task was added in front of another one.
C9_Witness ==
  /\ ret # Undefined
  /\ Len(tasks) = 2
  /\ tasks[1] = ret
  /\ tasks[2].title # ret.title

\* C10: updateTask never changes the id of a task.
C10_UpdateKeepsIds ==
  [][\A id \in ManagerIds, updates \in TaskUpdates :
       (\E rd \in Readings(Matches(tasks, id), now) :
          updateTask(id, updates, rd))
       => IdSeq(tasks') = IdSeq(tasks)]_vars

\* C11: the ids of the tasks of the manager's collection are pairwise
\* distinct in every reachable state.
C11_IdsDistinct ==
  \A i, j \in DOMAIN tasks : i # j => tasks[i].id # tasks[j].id

NotFoundCalls == {"updateTask", "deleteTask", "updateTaskStatus"}

\* C12: updateTask, deleteTask and updateTaskStatus called with an id no
\* task has return normally and leave the collection as it was: the same
\* tasks in the same order with the same field values.
C12_NotFoundNoOp ==
  [][last'.op \in NotFoundCalls /\ ~last'.found
       => tasks' = tasks /\ ret' = Undefined]_vars

\* C12 witness: the last call was given an id that none of the two tasks of
\* the collection has.
C12_Witness ==
  /\ last.op \in NotFoundCalls
  /\ ~last.found
  /\ Len(tasks) = 2

\* an instant the clock showed during the step
ReadDuringStep(v) == IsSet(v) /\ now <= v.ms /\ v.ms <= now'

\* C13: every task that updateTask, updateTaskStatus or clearCompleted
\* changes gets an updatedAt of the instant of the change.
C13_UpdatedAtRefreshed ==
  [][last'.op \in {"updateTask", "updateTaskStatus", "clearCompleted"}
       => \A i \in DOMAIN tasks :
            tasks'[i] # tasks[i] => ReadDuringStep(tasks'[i].updatedAt)]_vars

\* C14: in every reachable state of the manager every task has
\* updatedAt >= createdAt.
C14_UpdatedNotBeforeCreated ==
  \A i \in DOMAIN tasks : tasks[i].updatedAt.ms >= tasks[i].createdAt.ms

\* C15: clearCompleted turns every completed task into an archived one whose
\* other fields, completedAt among them, are as they were, and leaves every
\* other task, the order and the number of tasks unchanged; afterwards no
\* task is completed.
C15_ArchiveCompleted ==
  [][last'.op = "clearCompleted"
       => /\ Len(tasks') = Len(tasks)
          /\ \A i \in DOMAIN tasks :
               /\ tasks'[i].status # "completed"
               /\ IF tasks[i].status = "completed"
                  THEN /\ tasks'[i].status = "archived"
                       /\ \A f \in TaskFields \ {"status"} :
                            tasks'[i][f] = tasks[i][f]
                  ELSE tasks'[i] = tasks[i]]_vars

\* C15 witness: clearCompleted has archived a task that keeps its completedAt
\* instant, next to a pending task.
C15_Witness ==
  /\ last.op = "clearCompleted"
  /\ \E i, j \in DOMAIN tasks :
       /\ tasks[i].status = "archived"
       /\ IsSet(tasks[i].completedAt)
       /\ tasks[j].status = "pending"

----------------------------------------------------------------------------
(* Properties of the persisted store *)

\* C3: a storage event for the key replaces the tab's collection by the
\* deserialised new value, with its dates reconstructed, whatever the tab
\* held before.  Checked under TabsSpec.
C3_EventReplaces ==
  last.op = "handleStorageChange"
    => /\ storedValue[last.tab] = Deserialize(last.newValue)
       /\ \A i \in DOMAIN storedValue[last.tab] :
            /\ \A f \in {"createdAt", "updatedAt"} :
                 storedValue[last.tab][i][f].kind = "date"
            /\ \A f \in {"dueDate", "completedAt"} :
                 storedValue[last.tab][i][f].kind \in {"date", "null"}

\* C3 witness: a tab whose collection differed from the event's value has
\* handled the event, and a task of the other tab's write is in its
\* collection.
C3_Witness ==
  /\ last.op = "handleStorageChange"
  /\ last.stale
  /\ storedValue[last.tab] # <<>>

\* C5: when setItem throws, nothing escapes the setter and the tab's
\* collection is the new value all the same; a save that succeeds leaves the
\* stored value equal to the serialised collection.  Checked under StoreSpec.
C5_FailedWriteKeepsSession ==
  last.op \in SetterCalls
    => /\ last.outcome # Thrown
       /\ storedValue[last.tab] = last.value
       /\ last.ok => storage = JSONstringify(storedValue[last.tab])

\* C5 witness: after a save that succeeded, a save has failed: the tab's
\* collection is the new value and the stored value is still the older one.
C5_Witness ==
  /\ last.op \in SetterCalls
  /\ ~last.ok
  /\ saved # <<>>
  /\ storage = JSONstringify(saved[1])
  /\ storedValue[last.tab] = last.value
  /\ storedValue[last.tab] # saved[1]

\* the stored value is the text of a JSON array of task records
IsTaskCollectionText(item) ==
  /\ item # Null
  /\ ~item.empty
  /\ item.doc.kind = "array"
  /\ \A i \in DOMAIN item.doc.items : item.doc.items[i] # Null

SameOptionalDate(a, b) == IF IsSet(a) \/ IsSet(b) THEN a = b ELSE TRUE

SameTask(a, b) ==
  \A f \in TaskFields :
    IF f \in {"dueDate", "completedAt"} THEN SameOptionalDate(a[f], b[f])
    ELSE a[f] = b[f]

Quiescent == \A t \in open : inbox[t] = <<>>

\* the collection denotes what the stored text holds
SameAsStored(coll, text) ==
  /\ text # Null
  /\ ~DeserializeThrows(text)
  /\ Len(coll) = Len(Deserialize(text))
  /\ \A i \in DOMAIN coll : SameTask(coll[i], Deserialize(text)[i])

C25_TabsConverge ==
  Quiescent => \A t \in open : SameAsStored(storedValue[t], storage)

----------------------------------------------------------------------------
(* Properties of the queries and utilities, checked under ViewSpec *)

\* C16: at every instant the overdue query returns exactly the tasks for
\* which isTaskOverdue is true, and the due-today query exactly those for
\* which isTaskDueToday is true, in collection order.
C16_QueriesAgree ==
  /\ last.op = "getOverdueTasks"
       => ret.items = SelectSeq(tasks, LAMBDA t : isTaskOverdue(t, now))
  /\ last.op = "getDueToday"
       => ret.items = SelectSeq(tasks, LAMBDA t : isTaskDueToday(t, now))

\* C19: isTaskOverdue is true exactly for a task that has a due date on a
\* calendar day before the current one and is neither completed nor
\* archived; a task due at any instant of the current day is not overdue,
\* one due at the last instant of the day before is.
C19_OverdueByDay ==
  last.op = "isTaskOverdue"
    => ret.value =
         (/\ IsSet(tasks[last.index].dueDate)
          /\ tasks[last.index].status \notin {"completed", "archived"}
          /\ DayOf(tasks[last.index].dueDate.ms) < DayOf(now))

\* C19 witness: at the first instant of today a pending task due at the last
\* instant of yesterday was found overdue.
C19_Witness ==
  /\ last.op = "isTaskOverdue"
  /\ ret.value
  /\ tasks[last.index].status = "pending"
  /\ tasks[last.index].dueDate = DateOf(MsPerDay - 1)
  /\ now = MsPerDay

\* C20: getTaskStats reports a total equal to the number of tasks, and
\* pending + completed + archived equal to the total.
C20_StatsSum ==
  last.op = "getTaskStats"
    => /\ ret.stats.total = Len(tasks)
       /\ ret.stats.pending + ret.stats.completed + ret.stats.archived
            = ret.stats.total

\* C20 witness: the statistics of a collection of a pending and an archived
\* task.
C20_Witness ==
  /\ last.op = "getTaskStats"
  /\ Len(tasks) = 2
  /\ ret.stats.pending = 1
  /\ ret.stats.archived = 1

----------------------------------------------------------------------------
(* Properties of the editors, checked under EditSpec *)

\* C17: submitting the form or saving the modal with a title that is empty
\* or only whitespace records a title error, does not call onSubmit or
\* onSave, and leaves the collection unchanged.
C17_BlankTitleRejected ==
  [][/\ (/\ ui.page = "form"
         /\ last'.op \in {"handleSubmit", "addTask"}
         /\ Trim(ui.title) = "")
        => /\ ui'.errors = TitleRequired
           /\ last'.op = "handleSubmit"
           /\ tasks' = tasks
     /\ (/\ Editing
         /\ last'.op \in {"handleSave", "handleModalSave"}
         /\ Trim(ui.editedTask.title) = "")
        => /\ ui'.errors = TitleRequired
           /\ last'.op = "handleSave"
           /\ storedValue' = storedValue
           /\ storage' = storage]_vars

\* C17 witness: after one task was submitted, the form refused a title of
\* two spaces and shows the title error.
C17_Witness ==
  /\ ui.page = "form"
  /\ last.op = "handleSubmit"
  /\ ui.title = "  "
  /\ ui.errors = TitleRequired
  /\ Len(tasks) = 1

NoDuplicates(items) ==
  \A i, j \in DOMAIN items : i # j => items[i] # items[j]

TagsDistinct(coll) ==
  \A i \in DOMAIN coll : NoDuplicates(ItemsOf(coll[i].tags))

\* C18: the tags of every task of the collection contain no duplicates,
\* whatever tag additions and removals in the form and the modal and
\* whatever add and update operations produced them.
C18_TagsDistinct ==
  TagsDistinct(tasks) /\ TagsDistinct(storedValue[1])

\* the form and the modal by themselves never produce a duplicate tag: in
\* their state, in what the form submits and in what the modal saves
EditorsKeepTagsDistinct ==
  /\ ui.page = "form" => NoDuplicates(ui.tags) /\ TagsDistinct(tasks)
  /\ ui.page = "home"
       => /\ TagsDistinct(storedValue[1])
          /\ ui.editedTask # Null
               => NoDuplicates(ItemsOf(ui.editedTask.tags))

----------------------------------------------------------------------------
(* Properties of the sorts and of groupTasks, checked under SortSpec *)

\* the position of the task with this id in coll
PositionIn(coll, id) == CHOOSE i \in DOMAIN coll : coll[i].id = id

IsPermutation(items, coll) ==
  /\ Len(items) = Len(coll)
  /\ \A i \in DOMAIN coll : \E j \in DOMAIN items : items[j] = coll[i]

KeepsOrder(items, coll, i, j) ==
  PositionIn(coll, items[i].id) < PositionIn(coll, items[j].id)

\* C21: sortByPriority returns a permutation of its input in descending
\* priority rank (urgent, high, medium, low), two tasks of equal priority
\* keep their relative order, and the input is left as it was.
C21_SortByPriority ==
  last.op = "sortByPriority"
    => /\ tasks = last.input
       /\ IsPermutation(ret.items, last.input)
       /\ \A i, j \in DOMAIN ret.items :
            i < j =>
              /\ getPriorityValue(ret.items[i].priority)
                   >= getPriorityValue(ret.items[j].priority)
              /\ ret.items[i].priority = ret.items[j].priority
                   => KeepsOrder(ret.items, last.input, i, j)

\* C21 witness: a low task followed by an urgent one came back with the
\* urgent one first.
C21_Witness ==
  /\ last.op = "sortByPriority"
  /\ Len(tasks) = 2
  /\ tasks[1].priority = "low" /\ tasks[2].priority = "urgent"
  /\ ret.items = <<tasks[2], tasks[1]>>

C23_GroupByStatus ==
  last.op = "groupTasks" /\ last.arg = "status"
    => /\ DOMAIN ret.groups = {last.input[i].status : i \in DOMAIN last.input}
       /\ \A key \in DOMAIN ret.groups :
            ret.groups[key] =
              SelectSeq(last.input, LAMBDA t : t.status = key)

\* C23 witness: two pending tasks were grouped, in input order, under the
\* one key 'pending'.
C23_Witness ==
  /\ last.op = "groupTasks" /\ last.arg = "status"
  /\ DOMAIN ret.groups = {"pending"}
  /\ Len(ret.groups["pending"]) = 2
  /\ ret.groups["pending"] = tasks

----------------------------------------------------------------------------
(* Properties of the task list, checked under ListSpec *)

\* the status filter as documented: 'all' shows every task not archived
PassesFilter(task, filterStatus) ==
  IF filterStatus = "all" THEN task.status # "archived"
  ELSE task.status = filterStatus

\* the places of the rendered list that show the task
PlacesOf(sections, task) ==
  {<<s, i>> \in (DOMAIN sections) \X (1..MaxListTasks + 1) :
     i \in DOMAIN sections[s].items /\ sections[s].items[i] = task}

\* C28: for every filterStatus and groupBy, every task that passes the
\* status filter is rendered in exactly one displayed group of the list.
C28_FilteredTasksShown ==
  last.op = "TaskListDisplay"
    => \A n \in DOMAIN tasks :
         PassesFilter(tasks[n], last.filterStatus)
           => Cardinality(PlacesOf(ret.sections, tasks[n])) = 1

----------------------------------------------------------------------------
(* Properties of functional updates, checked under TurnSpec *)

\* C24: when two functional updates f and then g are issued in the same
\* turn from collection S, the in-memory collection and the persisted value
\* both end up as g(f(S)).
C24_UpdatesCompose ==
  ui.page = "hook" /\ Len(ui.issued) = 2
    => /\ storedValue[1] =
            ApplyUpdater(ui.issued[2],
                         ApplyUpdater(ui.issued[1], ui.closure, now), now)
       /\ storage =
            JSONstringify(
              ApplyUpdater(ui.issued[2],
                           ApplyUpdater(ui.issued[1], ui.closure, now), now))

----------------------------------------------------------------------------
(* Properties of the Home page and its modal, checked under ModalSpec *)

\* C27: after any sequence of opening the modal, pressing its status
\* buttons, entering edit mode and saving, every task of the collection has
\* completedAt non-null if and only if its status is completed.
C27_ModalKeepsCompletedAt ==
  \A i \in DOMAIN storedValue[1] :
    IsSet(storedValue[1][i].completedAt)
      <=> storedValue[1][i].status = "completed"

\* C29: the modal is open if and only if a task is selected; after a
\* confirmed delete in the modal the modal is closed, no task is selected
\* and the deleted id is absent from the collection.
C29_ModalOpenIffSelected ==
  /\ [](ui.isModalOpen <=> ui.selectedTask # Null)
  /\ [][last'.op = "handleModalDelete"
          => /\ ~ui'.isModalOpen
             /\ ui'.selectedTask = Null
             /\ ui.selectedTask.id \notin IdsOf(storedValue'[1])]_vars

\* C29 witness: the modal was opened on a task of two, the task was deleted
\* there, and the other task is still in the collection.
C29_Witness ==
  /\ last.op = "handleModalDelete"
  /\ ~ui.isModalOpen
  /\ ui.selectedTask = Null
  /\ ui.editedTask # Null
  /\ Len(storedValue[1]) = 1
  /\ ui.editedTask.id \notin IdsOf(storedValue[1])

\* the fields the edit mode of the modal lets the user change
EditableFields == {"title", "description", "dueDate", "priority", "tags"}

\* the task of the collection that is open in the modal
OpenTask ==
  storedValue[1][CHOOSE i \in DOMAIN storedValue[1] :
                   storedValue[1][i].id = ui.selectedTask.id]

\* C30: Cancel discards unsaved edits: whenever edit mode is entered, the
\* fields shown for editing are the saved values of the task, so that a Save
\* without further edits leaves them unchanged in the collection.
C30_CancelDiscardsEdits ==
  [][ui.isModalOpen /\ ~ui.isEditing /\ ui'.isModalOpen /\ ui'.isEditing
       => \A f \in EditableFields : ui'.editedTask[f] = OpenTask[f]]_vars

====
